---- MODULE Spec2Model ----
(***************************************************************************)
(* Model of the ollama-terminal demonstration client.                      *)
(*                                                                         *)
(* The repository holds two builds of the same program:                    *)
(*   src/main.go           the single-prompt build (client.Generate)       *)
(*   src/unnamed/part_000  the conversation build   (client.Chat)          *)
(* Both run the same startup sequence and then a read/complete loop.  The  *)
(* variable `variant` says which build is running.                         *)
(*                                                                         *)
(* Text is modelled as a sequence of one-character strings, so that        *)
(* strings.TrimSpace and strings.ToLower are computed, not assumed.        *)
(***************************************************************************)
EXTENDS Integers, Sequences, FiniteSets, TLC

(***************************************************************************)
(* Bounds of the model.                                                    *)
(***************************************************************************)
\* lines that standard input delivers before the model stops reading
MaxLines == 2
\* fragments the collaborator delivers to the callback in one call
MaxFrags == 2

(***************************************************************************)
(* Program constants.                                                      *)
(***************************************************************************)
\* const maxLen = 100 (display length of the reasoning text)
maxLen == 100

defaultModel == "gpt-oss:20b"

(***************************************************************************)
(* Text helpers: strings.ToLower, strings.TrimSpace, concatenation.        *)
(***************************************************************************)
UpperCase == <<"A","B","C","D","E","F","G","H","I","J","K","L","M",
               "N","O","P","Q","R","S","T","U","V","W","X","Y","Z">>
LowerCase == <<"a","b","c","d","e","f","g","h","i","j","k","l","m",
               "n","o","p","q","r","s","t","u","v","w","x","y","z">>

\* the ASCII white space strings.TrimSpace removes
WhiteSpace == {" ", "\t", "\n", "\r", "\f"}

ToLowerChar(c) ==
    IF \E i \in 1..Len(UpperCase) : UpperCase[i] = c
    THEN LowerCase[CHOOSE i \in 1..Len(UpperCase) : UpperCase[i] = c]
    ELSE c

ToLower(s) == [i \in 1..Len(s) |-> ToLowerChar(s[i])]

RECURSIVE TrimLeft(_)
TrimLeft(s) ==
    IF s # <<>> /\ Head(s) \in WhiteSpace THEN TrimLeft(Tail(s)) ELSE s

RECURSIVE TrimRight(_)
TrimRight(s) ==
    IF s # <<>> /\ s[Len(s)] \in WhiteSpace
    THEN TrimRight(SubSeq(s, 1, Len(s) - 1))
    ELSE s

NoTrim(s) == s

TrimSpace(s) == TrimRight(TrimLeft(s))

(***************************************************************************)
(* The inputs of the model.                                                *)
(***************************************************************************)
exit == <<"e","x","i","t">>
quit == <<"q","u","i","t">>
\* "You are a helpful assistant."
fallbackSystemMsg ==
    <<"Y","o","u"," ","a","r","e"," ","a"," ","h","e","l","p",
       "f","u","l"," ","a","s","s","i","s","t","a","n","t",".">>

\* what reader.ReadString('\n') can return: the line with its delimiter
Lines == {
    <<"\n">>,
    <<" ","\t","\r","\n">>,
    <<" ","a"," ","b"," ","\n">>,
    <<"e","x","i","t","\n">>,
    <<" ","E","x","I","T","\r","\n">>,
    <<"q","u","i","t","\n">>,
    <<"Q","U","I","T","\n">> }

\* what system.txt can hold; "absent" stands for a failing os.ReadFile
NoFile == <<"<absent>">>
SystemFiles == { NoFile, <<" ","s","y","s","\n">> }

\* the reasoning text of a fragment that is longer than the display length
LongThinking == [i \in 1..(maxLen + 1) |-> "z"]

\* what the collaborator can deliver to the streaming callback
\* (api.GenerateResponse{Thinking, Response} and
\*  api.ChatResponse{Message{Thinking, Content}})
Fragments == {
    [Thinking |-> LongThinking, Content |-> <<>>],
    [Thinking |-> <<>>,         Content |-> <<"H","i">>],
    [Thinking |-> <<"u">>,      Content |-> <<"!">>],
    [Thinking |-> <<>>,         Content |-> <<>>] }

(***************************************************************************)
(* State.                                                                  *)
(***************************************************************************)
VARIABLES
    variant,      \* "generate" (src/main.go) or "chat" (src/unnamed/part_000)
    pc,           \* position of main
    exitCode,     \* the process's exit status, meaningful once pc is "exited" or "done"
    attempted,    \* the collaborator calls of the startup sequence, in order
    systemMsg,    \* systemMsg
    messages,     \* messages (the conversation history; chat build only)
    eof,          \* standard input has reached its end: every later read fails
    consumed,     \* the lines reader.ReadString has returned so far
    text,         \* text (trimmed) of the current iteration
    req,          \* the request submitted with the current completion call
    calls,        \* number of completion calls (Generate or Chat) issued
    scopes,       \* one entry per longerCtx created: "live" or "released"
    fullResponse, \* fullResponse
    thinkingDone, \* thinkingDone
    delivered,    \* the fragments the callback has received in this call
    out,          \* what the callback has written to the terminal in this call
    err           \* the completion call returned an error

vars == <<variant, pc, exitCode, attempted, systemMsg, messages, eof, consumed,
          text, req, calls, scopes, fullResponse, thinkingDone, delivered,
          out, err>>

NoReq == [Model |-> "", Messages |-> <<>>, Prompt |-> <<>>, System |-> <<>>]

Init ==
    /\ variant \in {"generate", "chat"}
    /\ pc = "client"
    /\ exitCode = 0
    /\ attempted = <<>>
    /\ systemMsg = <<>>
    /\ messages = <<>>
    /\ eof = FALSE
    /\ consumed = <<>>
    /\ text = <<>>
    /\ req = NoReq
    /\ calls = 0
    /\ scopes = <<>>
    /\ fullResponse = <<>>
    /\ thinkingDone = FALSE
    /\ delivered = <<>>
    /\ out = <<>>
    /\ err = FALSE

loopVars == <<messages, eof, consumed, text, req, calls, scopes, fullResponse,
              thinkingDone, delivered, out, err>>

(***************************************************************************)
(* Startup sequence (both builds; Pull and Embed only in src/main.go).     *)
(***************************************************************************)
\* log.Fatalln and os.Exit(1): the process ends at once, deferred calls do not run
Fatal(code) ==
    /\ pc' = "exited"
    /\ exitCode' = code

\* api.ClientFromEnvironment() inside NewOllamaClient
NewOllamaClient ==
    /\ pc = "client"
    /\ \E ok \in BOOLEAN :
          IF ok THEN pc' = "loadsys" /\ UNCHANGED exitCode
                ELSE Fatal(1)
    /\ UNCHANGED <<variant, attempted, systemMsg>>
    /\ UNCHANGED loopVars

\* loadSystemMessage: the trimmed contents of the file
loadSystemMessage(file) == TrimSpace(file)

\* main: systemMsg, err := loadSystemMessage("system.txt"), with the fallback
LoadSystem ==
    /\ pc = "loadsys"
    /\ \E file \in SystemFiles :
          systemMsg' = IF file = NoFile THEN fallbackSystemMsg
                                        ELSE loadSystemMessage(file)
    /\ pc' = "heartbeat"
    /\ UNCHANGED <<variant, exitCode, attempted>>
    /\ UNCHANGED loopVars

\* a heartbeat failure that is reported but does not end the process
HeartbeatNoExit ==
    /\ pc = "heartbeat"
    /\ \E ok \in BOOLEAN :
          attempted' = Append(attempted, [call |-> "Heartbeat", ok |-> ok])
    /\ pc' = "version"
    /\ UNCHANGED <<variant, exitCode, systemMsg>>
    /\ UNCHANGED loopVars

\* client.Heartbeat(ctx)
Heartbeat ==
    /\ pc = "heartbeat"
    /\ \E ok \in BOOLEAN :
          /\ attempted' = Append(attempted, [call |-> "Heartbeat", ok |-> ok])
          /\ IF ok
             THEN pc' = "version" /\ UNCHANGED exitCode
             ELSE Fatal(1)
    /\ UNCHANGED <<variant, systemMsg>>
    /\ UNCHANGED loopVars

\* client.Version(ctx)
Version ==
    /\ pc = "version"
    /\ \E ok \in BOOLEAN :
          /\ attempted' = Append(attempted, [call |-> "Version", ok |-> ok])
          /\ IF ok
             THEN pc' = "list" /\ UNCHANGED exitCode
             ELSE Fatal(1)
    /\ UNCHANGED <<variant, systemMsg>>
    /\ UNCHANGED loopVars

\* client.List(ctx); the chat build has no pull and no embedding step
List ==
    /\ pc = "list"
    /\ \E ok \in BOOLEAN :
          /\ attempted' = Append(attempted, [call |-> "List", ok |-> ok])
          /\ IF ok
             THEN /\ pc' = IF variant = "generate" THEN "pull" ELSE "show"
                  /\ UNCHANGED exitCode
             ELSE Fatal(1)
    /\ UNCHANGED <<variant, systemMsg>>
    /\ UNCHANGED loopVars

\* client.Pull(context.Background(), pullReq, pullProgressFn)
Pull ==
    /\ pc = "pull"
    /\ \E ok \in BOOLEAN :
          /\ attempted' = Append(attempted, [call |-> "Pull", ok |-> ok])
          /\ IF ok
             THEN pc' = "embed" /\ UNCHANGED exitCode
             ELSE Fatal(1)
    /\ UNCHANGED <<variant, systemMsg>>
    /\ UNCHANGED loopVars

\* client.Embed(ctx, embedReq) and len(embedRes.Embeddings[0]): an answer
\* without embeddings makes the index expression panic (exit status 2)
Embed ==
    /\ pc = "embed"
    /\ \E res \in {"error", "empty", "ok"} :
          /\ attempted' = Append(attempted, [call |-> "Embed", ok |-> res # "error"])
          /\ CASE res = "ok"    -> pc' = "show" /\ UNCHANGED exitCode
               [] res = "error" -> Fatal(1)
               [] res = "empty" -> Fatal(2)
    /\ UNCHANGED <<variant, systemMsg>>
    /\ UNCHANGED loopVars

SystemTurn(content)    == [Role |-> "system",    Content |-> content]
UserTurn(content)      == [Role |-> "user",      Content |-> content]
AssistantTurn(content) == [Role |-> "assistant", Content |-> content]

\* client.Show(ctx, showReq); then the chat build seeds the history
Show ==
    /\ pc = "show"
    /\ \E ok \in BOOLEAN :
          /\ attempted' = Append(attempted, [call |-> "Show", ok |-> ok])
          /\ IF ok
             THEN /\ pc' = "read"
                  /\ UNCHANGED exitCode
                  /\ messages' = IF variant = "chat"
                                 THEN <<SystemTurn(systemMsg)>>
                                 ELSE messages
             ELSE Fatal(1) /\ UNCHANGED messages
    /\ UNCHANGED <<variant, systemMsg, eof, consumed, text, req, calls, scopes,
                   fullResponse, thinkingDone, delivered, out, err>>

(***************************************************************************)
(* The streaming callbacks.  st holds what the closure writes:             *)
(* the terminal (out), thinkingDone and fullResponse.                      *)
(***************************************************************************)
\* currentThinking[:maxLen] + "..."
Truncate(s) ==
    IF Len(s) > maxLen THEN SubSeq(s, 1, maxLen) \o <<".", ".", ".">> ELSE s

ThinkingEvent(s) == [kind |-> "thinking", text |-> s]
FinalizeEvent    == [kind |-> "finalize", text |-> <<>>]
AnswerEvent(s)   == [kind |-> "answer",   text |-> s]

\* the body shared by both callbacks: print the answer text and accumulate it
StreamResponse(st, content) ==
    IF content # <<>>
    THEN [st EXCEPT !.out = Append(@, AnswerEvent(content)),
                    !.fullResponse = @ \o content]
    ELSE st

\* func(g api.GenerateResponse) error of src/main.go
GenerateCallback(st, g) ==
    LET s1 == IF g.Thinking # <<>> /\ ~st.thinkingDone
              THEN [st EXCEPT !.out = Append(@, ThinkingEvent(Truncate(g.Thinking)))]
              ELSE st
        s2 == IF g.Content # <<>> /\ ~s1.thinkingDone
              THEN [s1 EXCEPT !.thinkingDone = TRUE,
                              !.out = Append(@, FinalizeEvent)]
              ELSE s1
    IN  StreamResponse(s2, g.Content)

\* a callback that keeps only the latest fragment's text
ChatCallbackOverwrite(st, resp) ==
    IF resp.Content # <<>>
    THEN [st EXCEPT !.out = Append(@, AnswerEvent(resp.Content)),
                    !.fullResponse = resp.Content]
    ELSE st

\* func(resp api.ChatResponse) error of the chat build: both reasoning
\* branches have empty bodies
ChatCallback(st, resp) == StreamResponse(st, resp.Content)

(***************************************************************************)
(* The session loop.                                                       *)
(***************************************************************************)
\* an exit test that lower-cases both words
IsExitCommandBothFolded(t) == ToLower(t) = exit \/ ToLower(t) = quit

\* an exit test that compares the text as typed
IsExitCommandExact(t) == t = exit \/ t = quit

\* strings.ToLower(text) == "exit" || text == "quit"
IsExitCommand(t) == ToLower(t) = exit \/ t = quit

\* a request that carries only the history before the current user turn
ChatRequestStale(msgs) ==
    [Model |-> defaultModel, Messages |-> SubSeq(msgs, 1, Len(msgs) - 1),
     Prompt |-> <<>>, System |-> <<>>]

\* &api.ChatRequest{Model, Messages: messages, Think}
ChatRequest(msgs) ==
    [Model |-> defaultModel, Messages |-> msgs, Prompt |-> <<>>, System |-> <<>>]

\* &api.GenerateRequest{Model, Prompt: text, System: systemMsg, Think}
GenerateRequest(prompt, system) ==
    [Model |-> defaultModel, Messages |-> <<>>, Prompt |-> prompt, System |-> system]

\* the variables declared inside the loop body, as they are between iterations
LocalsReset ==
    /\ text' = <<>>
    /\ req' = NoReq
    /\ fullResponse' = <<>>
    /\ thinkingDone' = FALSE
    /\ delivered' = <<>>
    /\ out' = <<>>
    /\ err' = FALSE

\* reader.ReadString fails (end of input, possibly after an unterminated
\* last line, which is discarded): continue
ReadError ==
    /\ pc = "read"
    /\ eof' = TRUE
    /\ UNCHANGED <<variant, pc, exitCode, attempted, systemMsg, messages, consumed,
                   text, req, calls, scopes, fullResponse, thinkingDone,
                   delivered, out, err>>

\* a line whose trimmed text is empty: continue
ReadEmpty ==
    /\ pc = "read"
    /\ ~eof
    /\ Len(consumed) < MaxLines
    /\ \E line \in Lines :
          /\ TrimSpace(line) = <<>>
          /\ consumed' = Append(consumed, line)
    /\ UNCHANGED <<variant, pc, exitCode, attempted, systemMsg, messages, eof,
                   text, req, calls, scopes, fullResponse, thinkingDone,
                   delivered, out, err>>

\* a line that passes the exit test: break; main returns and the deferred
\* cancel calls run
ReadExit ==
    /\ pc = "read"
    /\ ~eof
    /\ Len(consumed) < MaxLines
    /\ \E line \in Lines :
          /\ TrimSpace(line) # <<>>
          /\ IsExitCommand(TrimSpace(line))
          /\ consumed' = Append(consumed, line)
          /\ text' = TrimSpace(line)
    /\ pc' = "done"
    /\ exitCode' = 0
    /\ scopes' = [i \in 1..Len(scopes) |-> "released"]
    /\ UNCHANGED <<variant, attempted, systemMsg, messages, eof, req, calls,
                   fullResponse, thinkingDone, delivered, out, err>>

\* any other line: (chat build: append the user turn,) create the
\* cancellation scope, build the request and issue the completion call
ReadInput ==
    /\ pc = "read"
    /\ ~eof
    /\ Len(consumed) < MaxLines
    /\ \E line \in Lines :
          /\ TrimSpace(line) # <<>>
          /\ ~IsExitCommand(TrimSpace(line))
          /\ consumed' = Append(consumed, line)
          /\ text' = TrimSpace(line)
    /\ messages' = IF variant = "chat" THEN Append(messages, UserTurn(text'))
                                       ELSE messages
    /\ scopes' = Append(scopes, "live")
    /\ fullResponse' = <<>>
    /\ thinkingDone' = FALSE
    /\ req' = IF variant = "chat" THEN ChatRequest(messages')
                                  ELSE GenerateRequest(text', systemMsg)
    /\ calls' = calls + 1
    /\ delivered' = <<>>
    /\ out' = <<>>
    /\ err' = FALSE
    /\ pc' = "streaming"
    /\ UNCHANGED <<variant, exitCode, attempted, systemMsg, eof>>

\* the collaborator delivers one fragment: the callback runs on it
Deliver ==
    /\ pc = "streaming"
    /\ Len(delivered) < MaxFrags
    /\ \E f \in Fragments :
          LET st  == [out |-> out, thinkingDone |-> thinkingDone,
                      fullResponse |-> fullResponse]
              st2 == IF variant = "chat" THEN ChatCallback(st, f)
                                         ELSE GenerateCallback(st, f)
          IN  /\ out' = st2.out
              /\ thinkingDone' = st2.thinkingDone
              /\ fullResponse' = st2.fullResponse
              /\ delivered' = Append(delivered, f)
    /\ UNCHANGED <<variant, pc, exitCode, attempted, systemMsg, messages, eof,
                   consumed, text, req, calls, scopes, err>>

\* client.Chat / client.Generate returns, with or without an error (a
\* transport or server error, or the 30 s deadline of longerCtx)
CallReturn ==
    /\ pc = "streaming"
    /\ \E e \in BOOLEAN : err' = e
    /\ pc' = "returned"
    /\ UNCHANGED <<variant, exitCode, attempted, systemMsg, messages, eof,
                   consumed, text, req, calls, scopes, fullResponse,
                   thinkingDone, delivered, out>>

\* an append that is skipped when the call failed
AppendAssistantOnSuccess ==
    /\ pc = "returned"
    /\ variant = "chat"
    /\ messages' = IF err THEN messages
                          ELSE Append(messages, AssistantTurn(fullResponse))
    /\ pc' = "appended"
    /\ UNCHANGED <<variant, exitCode, attempted, systemMsg, eof, consumed, text,
                   req, calls, scopes, fullResponse, thinkingDone, delivered,
                   out, err>>

\* chat build: messages = append(messages, assistant turn), before err is looked at
AppendAssistant ==
    /\ pc = "returned"
    /\ variant = "chat"
    /\ messages' = Append(messages, AssistantTurn(fullResponse))
    /\ pc' = "appended"
    /\ UNCHANGED <<variant, exitCode, attempted, systemMsg, eof, consumed, text,
                   req, calls, scopes, fullResponse, thinkingDone, delivered,
                   out, err>>

\* an end of iteration that drops the last history entry when the call failed
EndIterationRollback ==
    /\ pc = "appended"
    /\ variant = "chat"
    /\ messages' = IF err THEN SubSeq(messages, 1, Len(messages) - 1) ELSE messages
    /\ scopes' = [scopes EXCEPT ![Len(scopes)] = "released"]
    /\ pc' = "read"
    /\ LocalsReset
    /\ UNCHANGED <<variant, exitCode, attempted, systemMsg, eof, consumed, calls>>

\* chat build: report the error if any, print the newline, cancel()
EndIteration ==
    /\ pc = "appended"
    /\ variant = "chat"
    /\ scopes' = [scopes EXCEPT ![Len(scopes)] = "released"]
    /\ pc' = "read"
    /\ LocalsReset
    /\ UNCHANGED <<variant, exitCode, attempted, systemMsg, messages, eof,
                   consumed, calls>>

\* generate build: on an error report it and continue, else print the
\* newline; cancel is deferred to the return of main
EndIterationGenerate ==
    /\ pc = "returned"
    /\ variant = "generate"
    /\ pc' = "read"
    /\ LocalsReset
    /\ UNCHANGED <<variant, exitCode, attempted, systemMsg, messages, eof,
                   consumed, calls, scopes>>

\* the 30 s timer of a scope left live by an earlier iteration fires
Expire ==
    /\ pc \in {"read", "streaming", "returned", "appended"}
    /\ \E i \in 1..Len(scopes) :
          /\ scopes[i] = "live"
          /\ i < Len(scopes) \/ pc = "read"
          /\ scopes' = [scopes EXCEPT ![i] = "released"]
    /\ UNCHANGED <<variant, pc, exitCode, attempted, systemMsg, messages, eof,
                   consumed, text, req, calls, fullResponse, thinkingDone,
                   delivered, out, err>>

Next ==
    \/ NewOllamaClient
    \/ LoadSystem
    \/ Heartbeat
    \/ Version
    \/ List
    \/ Pull
    \/ Embed
    \/ Show
    \/ ReadError
    \/ ReadEmpty
    \/ ReadExit
    \/ ReadInput
    \/ Deliver
    \/ CallReturn
    \/ AppendAssistant
    \/ EndIteration
    \/ EndIterationGenerate
    \/ Expire

Spec == Init /\ [][Next]_vars

(***************************************************************************)
(* Vocabulary of the properties, defined on the raw input and on the       *)
(* fragments, independently of the operators the loop uses.                *)
(***************************************************************************)
LoopPcs == {"read", "streaming", "returned", "appended"}
CallPcs == {"streaming", "returned", "appended"}

Last(s) == s[Len(s)]

IsPrefix(s, t) == Len(s) <= Len(t) /\ SubSeq(t, 1, Len(s)) = s

\* a line without its surrounding white space
Stripped(line) ==
    LET idx == {i \in 1..Len(line) : line[i] \notin WhiteSpace}
    IN  IF idx = {} THEN <<>>
        ELSE SubSeq(line, CHOOSE i \in idx : \A j \in idx : i <= j,
                          CHOOSE i \in idx : \A j \in idx : i >= j)

IsBlankLine(line) == \A i \in 1..Len(line) : line[i] \in WhiteSpace

\* every casing of the exit token
ExitCasings ==
    {<<a, b, c, d>> : a \in {"e", "E"}, b \in {"x", "X"},
                      c \in {"i", "I"}, d \in {"t", "T"}}

IsExitToken(line) == Stripped(line) \in ExitCasings

\* an input the loop turns into a completion call
IsChatInput(line) ==
    /\ ~IsBlankLine(line)
    /\ ~IsExitToken(line)
    /\ Stripped(line) # quit

\* non-empty and not the exit token
IsNonExitToken(line) == ~IsBlankLine(line) /\ ~IsExitToken(line)

RECURSIVE StrippedAll(_)
StrippedAll(ls) ==
    IF ls = <<>> THEN <<>> ELSE <<Stripped(Head(ls))>> \o StrippedAll(Tail(ls))

RECURSIVE ConcatContent(_)
ConcatContent(frags) ==
    IF frags = <<>> THEN <<>> ELSE Head(frags).Content \o ConcatContent(Tail(frags))

RECURSIVE ConcatText(_)
ConcatText(events) ==
    IF events = <<>> THEN <<>> ELSE Head(events).text \o ConcatText(Tail(events))

IsAnswer(e) == e.kind = "answer"
IsThinking(e) == e.kind = "thinking"
IsFinalize(e) == e.kind = "finalize"
IsUser(m) == m.Role = "user"

\* the answer text written to the terminal, in the order written
AnswerText(o) == ConcatText(SelectSeq(o, IsAnswer))

\* the history a sequence of accepted inputs must have produced
GrownBy(texts) ==
    /\ Len(messages) = 1 + 2 * Len(texts)
    /\ \A k \in 1..Len(texts) :
          /\ messages[2 * k] = UserTurn(texts[k])
          /\ messages[2 * k + 1].Role = "assistant"

(***************************************************************************)
(* C1                                                                      *)
(***************************************************************************)
\* C1 (as stated): in the chat build, whenever an iteration is complete, the
\* history is the system turn followed by one (user, assistant) pair per
\* input line that is non-empty after trimming and is not the exit token,
\* the user turn carrying the trimmed line.
C1_GrowthPerNonExitTokenInput ==
    (variant = "chat" /\ pc \in {"read", "appended", "done"})
        => GrownBy(StrippedAll(SelectSeq(consumed, IsNonExitToken)))

\* C1 (amended): in the chat build, whenever an iteration is complete, the
\* history is the system turn followed by one (user, assistant) pair per
\* input line that is non-empty after trimming and is neither the exit token
\* (any casing) nor the exact lower-case word quit; the user turn carries the
\* trimmed line, and the assistant turn just appended holds exactly the text
\* streamed, whether the call failed or not.
C1_GrowthPerChatInput ==
    (variant = "chat" /\ pc \in {"read", "appended", "done"})
        => /\ GrownBy(StrippedAll(SelectSeq(consumed, IsChatInput)))
           /\ pc = "appended"
                 => Last(messages) = AssistantTurn(ConcatContent(delivered))

\* a second exchange is complete whose call failed after streaming some text
C1_Witness ==
    /\ variant = "chat"
    /\ pc = "appended"
    /\ err
    /\ Len(messages) = 5
    /\ Last(messages).Content # <<>>

(***************************************************************************)
(* C2                                                                      *)
(***************************************************************************)
HistoryShape ==
    /\ Len(messages) >= 1
    /\ messages[1] = SystemTurn(systemMsg)
    /\ \A i \in 2..Len(messages) :
          messages[i].Role = IF i % 2 = 0 THEN "user" ELSE "assistant"
    /\ Len(messages) % 2 = 0 => pc \in {"streaming", "returned"}

\* C2: in the chat build, at every point of the session loop the history
\* starts with the system turn seeded before the loop, no other entry is a
\* system turn, the entries after it alternate user, assistant, and a
\* trailing user turn without its assistant turn exists only while its
\* completion call is running or has just returned; and every step leaves
\* the old history as a prefix of the new one.
C2_HistoryShapeAppendOnly ==
    /\ []((variant = "chat" /\ pc \in LoopPcs \cup {"done"}) => HistoryShape)
    /\ [][IsPrefix(messages, messages')]_vars

\* the second call has failed and its user turn has no assistant turn yet
C2_Witness ==
    /\ variant = "chat"
    /\ pc = "returned"
    /\ err
    /\ Len(messages) = 4

(***************************************************************************)
(* C3                                                                      *)
(***************************************************************************)
\* C3: a step that reads a line whose trimmed text is the exit token in any
\* casing ends the loop normally and changes neither the history nor the
\* number of completion calls, and creates no cancellation scope.
C3_ExitTokenTerminates ==
    [][(consumed' # consumed /\ IsExitToken(Last(consumed')))
          => /\ pc' = "done"
             /\ exitCode' = 0
             /\ messages' = messages
             /\ calls' = calls
             /\ Len(scopes') = Len(scopes)]_vars

\* the loop has ended on a mixed-case exit line after one exchange
C3_Witness ==
    /\ pc = "done"
    /\ variant = "chat"
    /\ Len(messages) = 3
    /\ Last(consumed) = <<" ", "E", "x", "I", "T", "\r", "\n">>

(***************************************************************************)
(* C4                                                                      *)
(***************************************************************************)
\* C4: a step that reads an empty or white-space-only line issues no
\* completion call, leaves the history as it was and stays at the read.
C4_BlankLineIgnored ==
    [][(consumed' # consumed /\ IsBlankLine(Last(consumed')))
          => /\ pc' = "read"
             /\ messages' = messages
             /\ calls' = calls
             /\ req' = req
             /\ scopes' = scopes]_vars

\* a white-space-only line has been read after one exchange
C4_Witness ==
    /\ pc = "read"
    /\ variant = "chat"
    /\ Len(messages) = 3
    /\ consumed # <<>>
    /\ Last(consumed) = <<" ", "\t", "\r", "\n">>

(***************************************************************************)
(* C5                                                                      *)
(***************************************************************************)
\* C5: during and after a completion call, the answer text written to the
\* terminal and the accumulated text both equal the concatenation, in
\* delivery order, of the answer text of the fragments delivered; in the
\* chat build the assistant turn appended afterwards holds that text.
C5_FragmentsInOrder ==
    pc \in CallPcs
        => /\ AnswerText(out) = ConcatContent(delivered)
           /\ fullResponse = ConcatContent(delivered)
           /\ (variant = "chat" /\ pc = "appended")
                 => Last(messages).Content = ConcatContent(delivered)

\* two fragments with different answer text have been delivered and the
\* assistant turn appended
C5_Witness ==
    /\ variant = "chat"
    /\ pc = "appended"
    /\ Len(delivered) = 2
    /\ delivered[1].Content = <<"H", "i">>
    /\ delivered[2].Content = <<"!">>
    /\ Last(messages).Content = <<"H", "i", "!">>

(***************************************************************************)
(* C6                                                                      *)
(***************************************************************************)
FatalStartupCalls == {"Heartbeat", "Version", "List", "Show", "Pull"}

\* C6: a collaborator call of the startup sequence that returned an error is
\* the last one attempted, and the process has then ended with a non-zero
\* status without ever having issued a completion call; for the client
\* construction, the connectivity check, version, list, show and pull that
\* status is 1; and a completion call is only ever issued after a startup
\* sequence without any failure.
C6_StartupFailureIsFatal ==
    /\ \A i \in 1..Len(attempted) :
          ~attempted[i].ok
             => /\ i = Len(attempted)
                /\ pc = "exited"
                /\ exitCode # 0
                /\ attempted[i].call \in FatalStartupCalls => exitCode = 1
    /\ (pc = "exited" /\ attempted = <<>>) => exitCode = 1
    /\ pc = "exited" => (calls = 0 /\ consumed = <<>> /\ messages = <<>>)
    /\ calls > 0 => \A i \in 1..Len(attempted) : attempted[i].ok

\* the connectivity check has failed
C6_Witness ==
    /\ pc = "exited"
    /\ attempted = <<[call |-> "Heartbeat", ok |-> FALSE]>>

(***************************************************************************)
(* C7                                                                      *)
(***************************************************************************)
\* C7 (as stated): a step leaves the session loop only by reading a line
\* whose trimmed text is the exit token in some casing.
C7_OnlyExitTokenEndsLoop ==
    [][(pc \in LoopPcs /\ pc' \notin LoopPcs)
          => /\ pc = "read"
             /\ pc' = "done"
             /\ consumed' # consumed
             /\ IsExitToken(Last(consumed'))]_vars

\* C7 (amended): a step leaves the session loop only by reading a line whose
\* trimmed text is the exit token in some casing or is exactly the
\* lower-case word quit; neither a failed completion call nor a failed read
\* leaves it.
C7_OnlyExitOrQuitEndsLoop ==
    [][(pc \in LoopPcs /\ pc' \notin LoopPcs)
          => /\ pc = "read"
             /\ pc' = "done"
             /\ consumed' # consumed
             /\ \/ IsExitToken(Last(consumed'))
                \/ Stripped(Last(consumed')) = quit]_vars

\* the loop has ended on the word quit after one exchange
C7_Witness ==
    /\ pc = "done"
    /\ Stripped(Last(consumed)) = quit
    /\ calls = 1

(***************************************************************************)
(* C8                                                                      *)
(***************************************************************************)
\* C8: whenever the loop is about to read a line, every cancellation scope
\* created by a completion call has been released.
C8_NoLiveScopeAtRead ==
    pc = "read" => \A i \in 1..Len(scopes) : scopes[i] = "released"

(***************************************************************************)
(* C9                                                                      *)
(***************************************************************************)
\* index of the first delivered fragment that carries answer text, 0 if none
FirstAnswer(d) ==
    LET idx == {i \in 1..Len(d) : d[i].Content # <<>>}
    IN  IF idx = {} THEN 0 ELSE CHOOSE i \in idx : \A j \in idx : i <= j

\* C9: in both builds, during and after a completion call: the reasoning
\* text of every fragment delivered before the first answer text has been
\* rendered (as a reasoning event, apart from the answer events) and no
\* reasoning text of a later fragment has; the reasoning display has been
\* finalized exactly once if answer text has arrived and not at all
\* otherwise; nothing is rendered as reasoning after the finalization; and
\* the accumulated text holds answer text only.
C9_ReasoningDisplay ==
    pc \in CallPcs
        => LET fa       == FirstAnswer(delivered)
               before   == {i \in 1..Len(delivered) :
                               /\ delivered[i].Thinking # <<>>
                               /\ fa = 0 \/ i < fa}
               upTo     == {i \in 1..Len(delivered) :
                               /\ delivered[i].Thinking # <<>>
                               /\ fa = 0 \/ i <= fa}
               rendered == Len(SelectSeq(out, IsThinking))
               finals   == {i \in 1..Len(out) : IsFinalize(out[i])}
           IN  /\ Cardinality(before) <= rendered
               /\ rendered <= Cardinality(upTo)
               /\ Cardinality(finals) = IF fa = 0 THEN 0 ELSE 1
               /\ \A i \in finals : \A j \in 1..Len(out) :
                     IsThinking(out[j]) => j < i
               /\ fullResponse = ConcatContent(delivered)

(***************************************************************************)
(* C10                                                                     *)
(***************************************************************************)
\* C10: in the chat build, the number of completion calls issued equals the
\* number of input lines read that are neither blank nor an exit command;
\* and while a call is running or has just returned, the message array it
\* was given is the whole history: it starts with the system turn and ends
\* with the user turn of the current input.
C10_FullHistorySubmitted ==
    variant = "chat"
        => /\ calls = Len(SelectSeq(consumed, IsChatInput))
           /\ pc \in {"streaming", "returned"}
                 => /\ req.Messages = messages
                    /\ Head(req.Messages) = SystemTurn(systemMsg)
                    /\ Last(req.Messages) = UserTurn(Stripped(Last(consumed)))
                    /\ calls = Len(SelectSeq(messages, IsUser))

\* the second call is running: its message array holds the first exchange
C10_Witness ==
    /\ variant = "chat"
    /\ pc = "streaming"
    /\ calls = 2
    /\ Len(req.Messages) = 4
    /\ req.Messages[3].Role = "assistant"

====
